---- MODULE Spec2Model ----
(***************************************************************************)
(* Model of check_availability.py: the monitor that scrapes the booking    *)
(* site (DisponibilidadeScraper.buscar), filters the slots found against   *)
(* the already-booked date (MonitorConsulta.filtrar_horarios_anteriores)   *)
(* and mails the earlier ones (EmailNotifier.enviar).                      *)
(*                                                                         *)
(* Texts (date texts, e-mail addresses) are TLA+ strings handled character *)
(* by character, so that parsing is computed the way the code computes it. *)
(***************************************************************************)
EXTENDS Integers, Sequences, FiniteSets, TLC

VARIABLES
    EMAIL_REMETENTE,      \* os.getenv("EMAIL_SENDER")   (None when unset)
    SENHA_EMAIL,          \* os.getenv("EMAIL_PASSWORD") (None when unset)
    EMAIL_DESTINO,        \* module constant EMAIL_DESTINO
    DATA_CONSULTA_ATUAL,  \* module constant DATA_CONSULTA_ATUAL
    agora,                \* the date datetime.now() returns when the run starts
    tique,                \* index of the first clock read of the filter that sees the next day (0: none)
    pc,                   \* position of the run
    horarios,             \* the list of Horario handed to the filter
    horarios_antes,       \* the list the filter returned
    registro,             \* what the filter logged, line by line
    excecao,              \* the exception that is propagating ("nenhuma": none)
    playwright,           \* the sync_playwright() session: "parado", "ativo", "encerrado"
    navegador,            \* the browser: "nao_aberto", "aberto", "fechado" (browser.close()),
                          \* "encerrado" (ended with the playwright session)
    fechamentos,          \* calls of browser.close() made by buscar
    chamadas_buscar,      \* calls of DisponibilidadeScraper.buscar
    entrou_no_try,        \* buscar reached its try block (line 388)
    mes_ano_text,         \* buscar: text of the month/year header
    botoes,               \* buscar: texts of the cura-button-outline elements still to visit
    data_selecionada,     \* buscar: the date the Horarios of the agenda get
    horarios_encontrados, \* buscar: the list it is building
    retorno,              \* buscar: the value of the return statement executed
    envios,               \* the lists EmailNotifier.enviar was called with
    conexoes_smtp,        \* connections opened with smtplib.SMTP
    retorno_enviar,       \* what enviar returned ("nenhum" before it does)
    codigo_saida,         \* exit code of the process (-1 while it runs)
    desfecho,             \* how main ended: "normal", "SystemExit", "KeyboardInterrupt", "Exception"
    interrupcoes,         \* KeyboardInterrupts delivered to the run
    engolidas,            \* KeyboardInterrupts caught by a handler inside buscar
    apos_interrupcao,     \* a step of the run started after a KeyboardInterrupt was delivered
    falha_absorvida,      \* a failure of a page operation was caught by the handler of its own step
    falha_critica,        \* a failure of a page operation ended buscar (line 441 or line 660)
    falha_envio           \* the exception raised inside enviar ("nenhuma": none)

config == <<EMAIL_REMETENTE, SENHA_EMAIL, EMAIL_DESTINO, DATA_CONSULTA_ATUAL, agora>>
filtro == <<tique, horarios_antes, registro>>
sessao == <<playwright, navegador, fechamentos, chamadas_buscar, entrou_no_try>>
agenda == <<mes_ano_text, botoes, data_selecionada, horarios_encontrados>>
correio == <<envios, conexoes_smtp, retorno_enviar, falha_envio>>
saida == <<codigo_saida, desfecho>>
sinais == <<interrupcoes, engolidas, apos_interrupcao>>
falhas == <<falha_absorvida, falha_critica>>

vars == <<config, filtro, sessao, agenda, correio, saida, sinais, falhas,
          pc, horarios, excecao, retorno>>

(***************************************************************************)
(* Bounds of the model.                                                    *)
(***************************************************************************)
MaxHorarios == 3

(***************************************************************************)
(* Characters and strings.                                                 *)
(***************************************************************************)
None == "<None>"

Ch(s, i) == IF i >= 1 /\ i <= Len(s) THEN SubSeq(s, i, i) ELSE ""

Digitos == {"0", "1", "2", "3", "4", "5", "6", "7", "8", "9"}

ValorDigito(c) ==
    CASE c = "0" -> 0 [] c = "1" -> 1 [] c = "2" -> 2 [] c = "3" -> 3
      [] c = "4" -> 4 [] c = "5" -> 5 [] c = "6" -> 6 [] c = "7" -> 7
      [] c = "8" -> 8 [] c = "9" -> 9

\* int(text) for a text of digits, possibly after one leading blank
RECURSIVE ValorNum(_)
ValorNum(s) ==
    IF Len(s) = 0 THEN 0
    ELSE IF Ch(s, 1) = " " THEN ValorNum(SubSeq(s, 2, Len(s)))
    ELSE ValorNum(SubSeq(s, 1, Len(s) - 1)) * 10 + ValorDigito(Ch(s, Len(s)))

MAIUSCULAS == "ABCDEFGHIJKLMNOPQRSTUVWXYZÇÃ"
MINUSCULAS == "abcdefghijklmnopqrstuvwxyzçã"

LetrasMaiusculas == {Ch(MAIUSCULAS, i) : i \in 1..Len(MAIUSCULAS)}
LetrasMinusculas == {Ch(MINUSCULAS, i) : i \in 1..Len(MINUSCULAS)}

ParaMinuscula ==
    [c \in LetrasMaiusculas |->
        Ch(MINUSCULAS, CHOOSE i \in 1..Len(MAIUSCULAS) : Ch(MAIUSCULAS, i) = c)]

\* str.lower(), one character
LowerCh(c) == IF c \in LetrasMaiusculas THEN ParaMinuscula[c] ELSE c

\* str.lower()
RECURSIVE Lower(_)
Lower(s) ==
    IF Len(s) = 0 THEN "" ELSE LowerCh(Ch(s, 1)) \o Lower(SubSeq(s, 2, Len(s)))

\* str.strip()
RECURSIVE Strip(_)
Strip(s) ==
    IF Len(s) = 0 THEN ""
    ELSE IF Ch(s, 1) = " " THEN Strip(SubSeq(s, 2, Len(s)))
    ELSE IF Ch(s, Len(s)) = " " THEN Strip(SubSeq(s, 1, Len(s) - 1))
    ELSE s

\* k in s
Contem(k, s) ==
    \E i \in 1..(Len(s) - Len(k) + 1) : SubSeq(s, i, i + Len(k) - 1) = k

\* s.split(",", 1)[1], for a text holding a comma
DepoisDaVirgula(s) ==
    LET i == CHOOSE j \in 1..Len(s) :
                 Ch(s, j) = "," /\ \A k \in 1..(j - 1) : Ch(s, k) # ","
    IN  SubSeq(s, i + 1, Len(s))

(***************************************************************************)
(* Calendar dates (datetime.date): records [ano, mes, dia].                *)
(***************************************************************************)
Bissexto(a) == (a % 4 = 0 /\ a % 100 # 0) \/ a % 400 = 0

DiasNoMes(a, m) ==
    IF m = 2 THEN (IF Bissexto(a) THEN 29 ELSE 28)
    ELSE IF m \in {4, 6, 9, 11} THEN 30 ELSE 31

\* the arguments datetime(ano, mes, dia) accepts; anything else is a ValueError
DataValida(a, m, d) ==
    /\ a >= 1 /\ a <= 9999
    /\ m >= 1 /\ m <= 12
    /\ d >= 1 /\ d <= DiasNoMes(a, m)

Data(a, m, d) == [ano |-> a, mes |-> m, dia |-> d]

\* date.__lt__
DataMenor(x, y) ==
    \/ x.ano < y.ano
    \/ x.ano = y.ano /\ x.mes < y.mes
    \/ x.ano = y.ano /\ x.mes = y.mes /\ x.dia < y.dia

\* the day after x
Amanha(x) ==
    IF x.dia < DiasNoMes(x.ano, x.mes) THEN Data(x.ano, x.mes, x.dia + 1)
    ELSE IF x.mes < 12 THEN Data(x.ano, x.mes + 1, 1)
    ELSE Data(x.ano + 1, 1, 1)

(***************************************************************************)
(* datetime.strptime for the formats the program uses.  A format is a      *)
(* sequence of tokens: the directives %d %m %Y %y and literal characters.  *)
(* strptime compiles the format to a regular expression, takes its first   *)
(* match from the start of the text (alternatives tried in order, with     *)
(* backtracking), rejects a match that leaves text unconverted, and then   *)
(* rejects a day that the month does not have.                             *)
(***************************************************************************)
Diretivas == {"%d", "%m", "%Y", "%y"}

Um_a_Nove == Digitos \ {"0"}

\* the alternatives of a directive's regular expression, in order, tried at
\* position p: n is the length an alternative consumes, ok whether it matches
Alternativas(t, s, p) ==
    LET c1 == Ch(s, p)
        c2 == Ch(s, p + 1)
    IN  CASE t = "%d" ->
                << [n |-> 2, ok |-> c1 = "3" /\ c2 \in {"0", "1"}],
                   [n |-> 2, ok |-> c1 \in {"1", "2"} /\ c2 \in Digitos],
                   [n |-> 2, ok |-> c1 = "0" /\ c2 \in Um_a_Nove],
                   [n |-> 1, ok |-> c1 \in Um_a_Nove],
                   [n |-> 2, ok |-> c1 = " " /\ c2 \in Um_a_Nove] >>
          [] t = "%m" ->
                << [n |-> 2, ok |-> c1 = "1" /\ c2 \in {"0", "1", "2"}],
                   [n |-> 2, ok |-> c1 = "0" /\ c2 \in Um_a_Nove],
                   [n |-> 1, ok |-> c1 \in Um_a_Nove] >>
          [] t = "%Y" ->
                << [n |-> 4, ok |-> \A k \in 0..3 : Ch(s, p + k) \in Digitos] >>
          [] t = "%y" ->
                << [n |-> 2, ok |-> c1 \in Digitos /\ c2 \in Digitos] >>

NaoCasou == [ok |-> FALSE]

RECURSIVE Casar(_, _, _, _, _)
RECURSIVE CasarAlternativas(_, _, _, _, _, _)

\* the match of tokens k.. of fmt against s from position p on
Casar(fmt, k, s, p, campos) ==
    IF k > Len(fmt) THEN [ok |-> TRUE, fim |-> p, campos |-> campos]
    ELSE IF fmt[k] \in Diretivas THEN CasarAlternativas(fmt, k, s, p, campos, 1)
    ELSE IF Ch(s, p) = fmt[k] THEN Casar(fmt, k + 1, s, p + 1, campos)
    ELSE NaoCasou

CasarAlternativas(fmt, k, s, p, campos, j) ==
    LET alts == Alternativas(fmt[k], s, p)
    IN  IF j > Len(alts) THEN NaoCasou
        ELSE LET a == alts[j]
                 r == IF a.ok
                      THEN Casar(fmt, k + 1, s, p + a.n,
                                 [campos EXCEPT ![fmt[k]] =
                                      ValorNum(SubSeq(s, p, p + a.n - 1))])
                      ELSE NaoCasou
             IN  IF r.ok THEN r
                 ELSE CasarAlternativas(fmt, k, s, p, campos, j + 1)

\* two-digit years: 00-68 are 2000-2068, 69-99 are 1969-1999
SeculoPivo(y) == IF y <= 68 THEN 2000 + y ELSE 1900 + y

SemCampos == [t \in Diretivas |-> -1]

\* datetime.strptime(s, fmt): [ok |-> TRUE, data |-> d], or [ok |-> FALSE]
\* for a ValueError
Strptime(s, fmt) ==
    LET r == Casar(fmt, 1, s, 1, SemCampos)
    IN  IF ~r.ok THEN NaoCasou
        ELSE IF r.fim # Len(s) + 1 THEN NaoCasou
        ELSE LET a == IF r.campos["%Y"] # -1 THEN r.campos["%Y"]
                      ELSE SeculoPivo(r.campos["%y"])
                 m == r.campos["%m"]
                 d == r.campos["%d"]
             IN  IF DataValida(a, m, d) THEN [ok |-> TRUE, data |-> Data(a, m, d)]
                 ELSE NaoCasou

FMT_Ymd == <<"%Y", "-", "%m", "-", "%d">>

\* the list formatos of filtrar_horarios_anteriores, in its order
formatos ==
    << <<"%d", "/", "%m", "/", "%Y">>,
       <<"%d", "/", "%m", "/", "%y">>,
       <<"%d", "-", "%m", "-", "%Y">>,
       <<"%d", "-", "%m", "-", "%y">>,
       FMT_Ymd >>

\* the loop over formatos: the first format that parses wins
RECURSIVE ParserNumerico(_, _)
ParserNumerico(data_str, i) ==
    IF i > Len(formatos) THEN NaoCasou
    ELSE LET r == Strptime(data_str, formatos[i])
         IN  IF r.ok THEN r ELSE ParserNumerico(data_str, i + 1)

(***************************************************************************)
(* The textual parser of filtrar_horarios_anteriores:                      *)
(*   re.search(r"(\d{1,2})\s+(?:de\s+)?([a-zçã]+)", data_str)              *)
(* and the lookup of the month word in meses_pt.                           *)
(***************************************************************************)
Letra(c) == c \in LetrasMinusculas

\* the first position from p on that holds no blank
RECURSIVE FimEspacos(_, _)
FimEspacos(s, p) == IF Ch(s, p) = " " THEN FimEspacos(s, p + 1) ELSE p

\* the longest run of [a-zçã] starting at p
RECURSIVE Letras(_, _)
Letras(s, p) == IF Letra(Ch(s, p)) THEN Ch(s, p) \o Letras(s, p + 1) ELSE ""

\* the match of the pattern starting exactly at p: groups 1 and 2
CasarDiaMes(s, p) ==
    LET n == IF Ch(s, p + 1) \in Digitos THEN 2 ELSE 1
        q == FimEspacos(s, p + n)
        r == FimEspacos(s, q + 2)
    IN  IF ~(Ch(s, p) \in Digitos /\ Ch(s, p + n) = " ") THEN NaoCasou
        ELSE IF SubSeq(s \o "  ", q, q + 1) = "de" /\ Ch(s, q + 2) = " "
                /\ Letra(Ch(s, r))
        THEN [ok |-> TRUE, dia |-> ValorNum(SubSeq(s, p, p + n - 1)),
              mes_nome |-> Letras(s, r)]
        ELSE IF Letra(Ch(s, q))
        THEN [ok |-> TRUE, dia |-> ValorNum(SubSeq(s, p, p + n - 1)),
              mes_nome |-> Letras(s, q)]
        ELSE NaoCasou

\* re.search: the match at the leftmost position that has one
RECURSIVE BuscarDiaMes(_, _)
BuscarDiaMes(s, p) ==
    IF p > Len(s) THEN NaoCasou
    ELSE LET r == CasarDiaMes(s, p)
         IN  IF r.ok THEN r ELSE BuscarDiaMes(s, p + 1)

\* the dict meses_pt, in its insertion order
meses_pt ==
    << <<"janeiro", 1>>, <<"fevereiro", 2>>, <<"março", 3>>, <<"abril", 4>>,
       <<"maio", 5>>, <<"junho", 6>>, <<"julho", 7>>, <<"agosto", 8>>,
       <<"setembro", 9>>, <<"outubro", 10>>, <<"novembro", 11>>,
       <<"dezembro", 12>>,
       <<"jan", 1>>, <<"fev", 2>>, <<"mar", 3>>, <<"abr", 4>>, <<"mai", 5>>,
       <<"jun", 6>>, <<"jul", 7>>, <<"ago", 8>>, <<"set", 9>>, <<"out", 10>>,
       <<"nov", 11>>, <<"dez", 12>> >>

\* next((v for k, v in meses_pt.items() if k in mes_nome), None); 0 is None
RECURSIVE MesNum(_, _)
MesNum(mes_nome, i) ==
    IF i > Len(meses_pt) THEN 0
    ELSE IF Contem(meses_pt[i][1], mes_nome) THEN meses_pt[i][2]
    ELSE MesNum(mes_nome, i + 1)

\* a variant of AnoInferido that also moves the current month to next year
AnoInferidoMesAtualInclusive(mes_num, ano_atual, mes_atual) ==
    IF mes_num <= mes_atual THEN ano_atual + 1 ELSE ano_atual

\* ano = ano_atual; if mes_num < mes_atual: ano += 1
AnoInferido(mes_num, ano_atual, mes_atual) ==
    IF mes_num < mes_atual THEN ano_atual + 1 ELSE ano_atual

\* The body of the loop for one Horario, up to "Verificacao final".
\* lido_ano and lido_mes are what the two datetime.now() calls return.
\* The result is [tipo |-> "data", data |-> d] when data_horario was set,
\* [tipo |-> "sem_data"] when it stayed None, and [tipo |-> "excecao"] when
\* datetime(ano, mes_num, dia) raised.
ProcessarHorario(horario, lido_ano, lido_mes) ==
    LET data_str == Strip(Lower(horario.data))
        numerico == ParserNumerico(data_str, 1)
        texto    == IF Contem(",", data_str)
                    THEN Strip(DepoisDaVirgula(data_str))
                    ELSE data_str
        match    == BuscarDiaMes(texto, 1)
        mes_num  == MesNum(match.mes_nome, 1)
        ano      == AnoInferido(mes_num, lido_ano.ano, lido_mes.mes)
    IN  IF numerico.ok THEN [tipo |-> "data", data |-> numerico.data]
        ELSE IF ~match.ok THEN [tipo |-> "sem_data"]
        ELSE IF mes_num = 0 THEN [tipo |-> "sem_data"]
        ELSE IF DataValida(ano, mes_num, match.dia)
        THEN [tipo |-> "data", data |-> Data(ano, mes_num, match.dia)]
        ELSE [tipo |-> "excecao"]

(***************************************************************************)
(* MonitorConsulta.filtrar_horarios_anteriores.                            *)
(*                                                                         *)
(* The clock: the Horario at index i reads datetime.now() twice, reads     *)
(* 2i-1 (ano_atual) and 2i (mes_atual).  The run starts on the day ag;     *)
(* midnight may pass while the filter runs: tq is the first read that sees *)
(* the next day (0 when none does).                                        *)
(***************************************************************************)
Leitura(ag, tq, k) == IF tq # 0 /\ k >= tq THEN Amanha(ag) ELSE ag

\* The filter uses only the year and the month of what it reads, so the
\* passing of midnight shows only on the last day of a month.
Tiques(ag, n) == IF Amanha(ag).mes # ag.mes THEN 0..(2 * n) ELSE {0}

LeituraAno(ag, tq, i) == Leitura(ag, tq, 2 * i - 1)
LeituraMes(ag, tq, i) == Leitura(ag, tq, 2 * i)

\* a variant of Anterior that also accepts the reference date itself
AnteriorOuIgual(data_horario, data_consulta_obj) ==
    ~DataMenor(data_consulta_obj, data_horario)

\* data_horario.date() < data_consulta_obj.date()
Anterior(data_horario, data_consulta_obj) ==
    DataMenor(data_horario, data_consulta_obj)

\* a variant of Acrescentar that appends the Horario twice
AcrescentarDuasVezes(lista, horario) == Append(Append(lista, horario), horario)

\* a variant of Acrescentar that puts the Horario in front
AcrescentarNaFrente(lista, horario) == <<horario>> \o lista

\* horarios_antes.append(horario)
Acrescentar(lista, horario) == Append(lista, horario)

\* a variant of AposExcecao that leaves the loop
AposExcecaoSair(i, n) == n + 1

\* except Exception: continue -- the index the loop goes on with
AposExcecao(i, n) == i + 1

\* except Exception as e: the exception classes the handler catches
\* (a bare except catches BaseException)
Captura(handler, tipo) ==
    \/ handler = "BaseException"
    \/ handler = "Exception" /\ tipo \notin {"KeyboardInterrupt", "SystemExit"}

\* The for loop from index i on.  acc is horarios_antes so far and reg the
\* lines logged so far, each with the data_horario it prints.  The result is
\* [levantou |-> FALSE, antes |-> horarios_antes, registro |-> the log], or
\* levantou |-> TRUE when an exception leaves the loop.
RECURSIVE Percorrer(_, _, _, _, _, _, _)
RECURSIVE Iteracao(_, _, _, _, _, _, _, _)
Percorrer(hs, i, acc, reg, data_consulta_obj, ag, tq) ==
    IF i > Len(hs) THEN [levantou |-> FALSE, antes |-> acc, registro |-> reg]
    ELSE Iteracao(ProcessarHorario(hs[i], LeituraAno(ag, tq, i), LeituraMes(ag, tq, i)),
                  hs, i, acc, reg, data_consulta_obj, ag, tq)

\* the body of the loop for hs[i], r being what lines 720-756 made of it
Iteracao(r, hs, i, acc, reg, data_consulta_obj, ag, tq) ==
    IF r.tipo = "excecao"
    THEN IF Captura("Exception", "ValueError")
         THEN Percorrer(hs, AposExcecao(i, Len(hs)), acc,
                        Append(reg, [msg |-> "Erro ao processar", i |-> i]),
                        data_consulta_obj, ag, tq)
         ELSE [levantou |-> TRUE, antes |-> acc, registro |-> reg]
    ELSE IF r.tipo = "sem_data"
    THEN Percorrer(hs, i + 1, acc,
                   Append(reg, [msg |-> "Nao foi possivel converter", i |-> i]),
                   data_consulta_obj, ag, tq)
    ELSE IF Anterior(r.data, data_consulta_obj)
    THEN Percorrer(hs, i + 1, Acrescentar(acc, hs[i]),
                   Append(reg, [msg |-> "ENCONTRADO", i |-> i,
                                data_horario |-> r.data]),
                   data_consulta_obj, ag, tq)
    ELSE Percorrer(hs, i + 1, acc,
                   Append(reg, [msg |-> "Ignorado", i |-> i,
                                data_horario |-> r.data]),
                   data_consulta_obj, ag, tq)

filtrar_horarios_anteriores(hs, data_limite, ag, tq) ==
    LET data_consulta_obj == Strptime(data_limite, FMT_Ymd)
    IN  IF ~data_consulta_obj.ok
        THEN [levantou |-> FALSE, antes |-> <<>>,
              registro |-> <<[msg |-> "Data limite invalida", i |-> 0]>>]
        ELSE Percorrer(hs, 1, <<>>, <<>>, data_consulta_obj.data, ag, tq)

Horario(data, hora) ==
    [data |-> data, hora |-> hora, texto_original |-> data \o " " \o hora]

(***************************************************************************)
(* Texts of dates, as the site may show them.                              *)
(***************************************************************************)
Dig(n) == SubSeq("0123456789", n + 1, n + 1)

\* two digits: f"{n:02d}" for n < 100
DoisDigitos(n) == Dig(n \div 10) \o Dig(n % 10)

\* f"{n}"
RECURSIVE Decimal(_)
Decimal(n) == IF n < 10 THEN Dig(n) ELSE Decimal(n \div 10) \o Dig(n % 10)

DiasNumericos == {1, 10, 29, 30, 31}
MesesNumericos == {2, 3, 4, 12, 13}
AnosNumericos == {2024, 2025, 2026}
FormasNumericas == {"dd/mm/yyyy", "d/m/yyyy", "dd/mm/yy", "dd-mm-yyyy", "dd-mm-yy", "yyyy-mm-dd"}

TextoNumerico(d, m, a, forma) ==
    CASE forma = "dd/mm/yyyy" -> DoisDigitos(d) \o "/" \o DoisDigitos(m) \o "/" \o Decimal(a)
      [] forma = "d/m/yyyy"   -> Decimal(d) \o "/" \o Decimal(m) \o "/" \o Decimal(a)
      [] forma = "dd/mm/yy"   -> DoisDigitos(d) \o "/" \o DoisDigitos(m) \o "/" \o DoisDigitos(a % 100)
      [] forma = "dd-mm-yyyy" -> DoisDigitos(d) \o "-" \o DoisDigitos(m) \o "-" \o Decimal(a)
      [] forma = "dd-mm-yy"   -> DoisDigitos(d) \o "-" \o DoisDigitos(m) \o "-" \o DoisDigitos(a % 100)
      [] forma = "yyyy-mm-dd" -> Decimal(a) \o "-" \o DoisDigitos(m) \o "-" \o DoisDigitos(d)

DiasTextuais == {0, 1, 20, 29, 31}
FormasTextuais == {"d de M", "d M", "Seg, d de M", "D DE M"}

Maiuscula(s) == IF s = "março" THEN "MARÇO" ELSE
    LET RECURSIVE Up(_)
        Up(t) == IF Len(t) = 0 THEN ""
                 ELSE LET c == Ch(t, 1)
                          k == CHOOSE j \in 1..Len(MINUSCULAS) : Ch(MINUSCULAS, j) = c
                      IN  Ch(MAIUSCULAS, k) \o Up(SubSeq(t, 2, Len(t)))
    IN  Up(s)

TextoDiaMes(d, palavra, forma) ==
    CASE forma = "d de M"      -> Decimal(d) \o " de " \o palavra
      [] forma = "d M"         -> Decimal(d) \o " " \o palavra
      [] forma = "Seg, d de M" -> "Seg, " \o Decimal(d) \o " de " \o palavra
      [] forma = "D DE M"      -> Decimal(d) \o " DE " \o Maiuscula(palavra)

NomesDeMes == {meses_pt[k][1] : k \in 1..Len(meses_pt)}

\* words that may follow a day number and are not in meses_pt
OutrasPalavras == {"de", "xyz", "setor", "agora"}

\* the Horarios of the lists of several Horarios
HorariosBase ==
    { Horario("11/03/2026", "09:00"), Horario("10/03/2026", "14:30"),
      Horario("12/03/2026", "08:00"), Horario("amanhã", "09:00"),
      Horario("31/04/2026", "10:00"), Horario("31 de abril", "10:00") }

\* a numeric date after the name of a weekday and a comma
HorariosComVirgula ==
    { Horario("Seg, " \o TextoNumerico(d, m, a, f), "09:00") :
        d \in DiasNumericos, m \in MesesNumericos, a \in AnosNumericos,
        f \in {"dd/mm/yyyy", "yyyy-mm-dd"} }

\* the year written after the day and the month
AnosEscritos == {2025, 2027}

TextoDiaMesAno(d, palavra, a) ==
    TextoDiaMes(d, palavra, "d de M") \o " de " \o Decimal(a)

HorariosComAno ==
    { Horario(TextoDiaMesAno(d, w, a), "14:30") :
        d \in {10, 20}, w \in {"março", "outubro"}, a \in AnosEscritos }

\* the Horarios of the lists of one Horario
HorariosAvulsos ==
    { Horario(TextoNumerico(d, m, a, f), "09:00") :
        d \in DiasNumericos, m \in MesesNumericos, a \in AnosNumericos,
        f \in FormasNumericas }
    \cup
    { Horario(TextoDiaMes(d, w, f), "14:30") :
        d \in DiasTextuais, w \in NomesDeMes \cup {"marco"} \cup OutrasPalavras,
        f \in FormasTextuais }
    \cup HorariosComVirgula \cup HorariosComAno

RECURSIVE Listas(_, _)
Listas(S, n) ==
    IF n = 0 THEN {<<>>}
    ELSE LET menores == Listas(S, n - 1)
         IN  menores \cup {Append(l, x) : l \in {m \in menores : Len(m) = n - 1}, x \in S}

Entradas == Listas(HorariosBase, MaxHorarios) \cup {<<h>> : h \in HorariosAvulsos}

DatasLimite == {"2026-03-11", "2026-10-20", "11/03/2026"}

Agoras == {Data(2025, 6, 15), Data(2025, 10, 5), Data(2025, 12, 31)}

(***************************************************************************)
(* SpecFiltro: filtrar_horarios_anteriores applied to every input of the   *)
(* bounded sets above.                                                     *)
(***************************************************************************)
\* the state of everything but the filter before main starts
ForaDaExecucao ==
    /\ excecao = "nenhuma"
    /\ playwright = "parado"
    /\ navegador = "nao_aberto"
    /\ fechamentos = 0
    /\ chamadas_buscar = 0
    /\ entrou_no_try = FALSE
    /\ mes_ano_text = ""
    /\ botoes = <<>>
    /\ data_selecionada = ""
    /\ horarios_encontrados = <<>>
    /\ retorno = <<>>
    /\ envios = <<>>
    /\ conexoes_smtp = 0
    /\ retorno_enviar = "nenhum"
    /\ falha_envio = "nenhuma"
    /\ codigo_saida = -1
    /\ desfecho = "em_curso"
    /\ interrupcoes = 0
    /\ engolidas = 0
    /\ apos_interrupcao = FALSE
    /\ falha_absorvida = FALSE
    /\ falha_critica = FALSE

InitFiltro ==
    /\ EMAIL_REMETENTE = None
    /\ SENHA_EMAIL = None
    /\ EMAIL_DESTINO = None
    /\ DATA_CONSULTA_ATUAL \in DatasLimite
    /\ agora \in Agoras
    /\ tique = 0
    /\ pc = "filtrar"
    /\ horarios \in Entradas
    /\ horarios_antes = <<>>
    /\ registro = <<>>
    /\ ForaDaExecucao

Filtrar ==
    /\ pc = "filtrar"
    /\ \E tq \in Tiques(agora, Len(horarios)) :
          \E r \in {filtrar_horarios_anteriores(horarios, DATA_CONSULTA_ATUAL, agora, tq)} :
              /\ tique' = tq
              /\ horarios_antes' = r.antes
              /\ registro' = r.registro
              /\ pc' = IF r.levantou THEN "levantou" ELSE "filtrado"
    /\ UNCHANGED <<config, sessao, agenda, correio, saida, sinais, falhas,
                   horarios, excecao, retorno>>

NextFiltro == Filtrar

SpecFiltro == InitFiltro /\ [][NextFiltro]_vars

(***************************************************************************)
(* Properties of the filter (checked under SpecFiltro).                    *)
(***************************************************************************)
DataLimiteObj == Strptime(DATA_CONSULTA_ATUAL, FMT_Ymd)

SemHora(h) == [h EXCEPT !.hora = "", !.texto_original = ""]

\* what the Horario at index i of the input normalizes to, its hora erased
Normalizado(i) ==
    ProcessarHorario(SemHora(horarios[i]), LeituraAno(agora, tique, i),
                     LeituraMes(agora, tique, i))

\* days are numbered so that a later date has a larger number
Ordinal(d) == (d.ano * 12 + d.mes) * 31 + d.dia

EstritamenteAntes(i, limite) ==
    \E r \in {Normalizado(i)} :
        r.tipo = "data" /\ Ordinal(r.data) < Ordinal(limite)

RECURSIVE Esperados(_, _)
Esperados(i, limite) ==
    IF i > Len(horarios) THEN <<>>
    ELSE (IF EstritamenteAntes(i, limite) THEN <<horarios[i]>> ELSE <<>>)
             \o Esperados(i + 1, limite)

Datas(hs) == [i \in 1..Len(hs) |-> hs[i].data]

\* the numeric texts of HorariosAvulsos, each with the <<d, m, a>> it was
\* written from
OrigensNumericas ==
    LET X == DiasNumericos \X MesesNumericos \X AnosNumericos \X FormasNumericas
        T == [x \in X |-> TextoNumerico(x[1], x[2], x[3], x[4])]
    IN  [t \in {T[x] : x \in X} |-> CHOOSE x \in X : T[x] = t]

\* C1: for every list of Horarios and every valid reference date, the filter
\* returns exactly the Horarios whose normalized date is strictly earlier than
\* the reference date, in the order of the input and whatever their hora: a
\* Horario written from a valid date (d, m, a) in any numeric form is returned
\* iff (a, m, d) is earlier than the reference date, one written from an
\* invalid date never is, and 11/03, 10/03, 12/03/2026 against 2026-03-11
\* yield only 10/03/2026.
C1_ExatamenteOsAnteriores ==
    (pc = "filtrado" /\ DataLimiteObj.ok) =>
      \E limite \in {DataLimiteObj.data} :
        /\ horarios_antes = Esperados(1, limite)
        /\ (Len(horarios) = 1 /\ horarios[1].data \in DOMAIN OrigensNumericas) =>
              \E x \in {OrigensNumericas[horarios[1].data]} :
                  horarios_antes = horarios
                      <=> /\ DataValida(x[3], x[2], x[1])
                          /\ Ordinal(Data(x[3], x[2], x[1])) < Ordinal(limite)
        /\ (/\ Datas(horarios) = <<"11/03/2026", "10/03/2026", "12/03/2026">>
            /\ DATA_CONSULTA_ATUAL = "2026-03-11")
              => horarios_antes = <<horarios[2]>>

C1_Witness ==
    /\ pc = "filtrado"
    /\ DATA_CONSULTA_ATUAL = "2026-03-11"
    /\ horarios = << Horario("11/03/2026", "09:00"), Horario("10/03/2026", "14:30"),
                     Horario("12/03/2026", "08:00") >>
    /\ horarios_antes = << Horario("10/03/2026", "14:30") >>

\* the indices of the Horarios of the input that cannot be normalized
Inconversiveis == {i \in 1..Len(horarios) : Normalizado(i).tipo # "data"}

\* the input without the Horarios at the indices K
RECURSIVE Sem(_, _)
Sem(K, i) ==
    IF i > Len(horarios) THEN <<>>
    ELSE (IF i \in K THEN <<>> ELSE <<horarios[i]>>) \o Sem(K, i + 1)

\* the input with every Horario at an index of K replaced by one dated on
\* the reference date itself
Trocados(K) ==
    [i \in 1..Len(horarios) |->
        IF i \in K THEN Horario(DATA_CONSULTA_ATUAL, horarios[i].hora)
        ELSE horarios[i]]

\* C5: a Horario whose date text cannot be normalized (no pattern matches, or
\* the day does not exist in the month, numeric or textual) is not returned,
\* the filter raises nothing, and the Horarios returned are those returned
\* for the list without it (and for the list where a Horario dated on the
\* reference date stands in its place).
C5_InconversivelSoExcluido ==
    /\ pc # "levantou"
    /\ (pc = "filtrado" /\ DataLimiteObj.ok) =>
        \E K \in {Inconversiveis} :
          /\ \A j \in 1..Len(horarios_antes) :
                \E i \in (1..Len(horarios)) \ K : horarios[i] = horarios_antes[j]
          /\ K # {} =>
                /\ tique = 0 =>
                      horarios_antes =
                          filtrar_horarios_anteriores(Sem(K, 1),
                              DATA_CONSULTA_ATUAL, agora, 0).antes
                /\ horarios_antes =
                      filtrar_horarios_anteriores(Trocados(K),
                          DATA_CONSULTA_ATUAL, agora, tique).antes

C5_Witness ==
    /\ pc = "filtrado"
    /\ DATA_CONSULTA_ATUAL = "2026-03-11"
    /\ Datas(horarios) = <<"31 de abril", "10/03/2026", "amanhã">>
    /\ Datas(horarios_antes) = <<"10/03/2026">>
    /\ Len(registro) = 3
    /\ registro[1].msg = "Erro ao processar"
    /\ registro[3].msg = "Nao foi possivel converter"

\* a is b with some elements left out
RECURSIVE Subsequencia(_, _)
Subsequencia(a, b) ==
    IF Len(a) = 0 THEN TRUE
    ELSE IF Len(b) = 0 THEN FALSE
    ELSE IF Head(a) = Head(b) THEN Subsequencia(Tail(a), Tail(b))
    ELSE Subsequencia(a, Tail(b))

\* C9: the list returned is a subsequence of the input list: the Horarios
\* returned keep their order in the input, none is duplicated and none is new.
C9_PreservaOrdem ==
    pc = "filtrado" => Subsequencia(horarios_antes, horarios)

C9_Witness ==
    /\ pc = "filtrado"
    /\ Len(horarios) = 3
    /\ Len(horarios_antes) = 2
    /\ horarios_antes[1] # horarios_antes[2]
    /\ horarios_antes = <<horarios[1], horarios[3]>>

\* the textual texts of HorariosAvulsos, each with the <<day, month word>> it
\* was written from
OrigensTextuais ==
    LET X == DiasTextuais \X (NomesDeMes \cup {"marco"}) \X FormasTextuais
        T == [x \in X |-> TextoDiaMes(x[1], x[2], x[3])]
    IN  [t \in {T[x] : x \in X} |-> CHOOSE x \in X : T[x] = t]

\* the month a month word names: the names, then the abbreviations, run
\* from January to December
NumeroDoMes(palavra) ==
    IF palavra = "marco" THEN 3
    ELSE LET k == CHOOSE j \in 1..Len(meses_pt) : meses_pt[j][1] = palavra
         IN  ((k - 1) % 12) + 1

\* C10: a textual day and month without a year is normalized to the year
\* the clock shows, unless the month is strictly less than the month the
\* clock shows, and then to the year after: "20 de outubro" read in June 2025
\* is 20/10/2025, read in December 2025 it is 20/10/2026, and a month equal
\* to the month the clock shows stays in the year the clock shows.
C10_AnoInferido ==
    (pc = "filtrado" /\ DataLimiteObj.ok /\ Len(horarios) = 1) =>
        /\ horarios[1].data \in DOMAIN OrigensTextuais =>
              \E x \in {OrigensTextuais[horarios[1].data]} :
                  LET m == NumeroDoMes(x[2])
                      ano_atual == LeituraAno(agora, tique, 1).ano
                      mes_atual == LeituraMes(agora, tique, 1).mes
                      ano == IF m < mes_atual THEN ano_atual + 1 ELSE ano_atual
                  IN  /\ Len(registro) = 1
                      /\ IF DataValida(ano, m, x[1])
                         THEN /\ registro[1].msg \in {"ENCONTRADO", "Ignorado"}
                              /\ registro[1].data_horario = Data(ano, m, x[1])
                         ELSE registro[1].msg = "Erro ao processar"
        /\ (horarios[1].data = "20 de outubro" /\ tique = 0) =>
              /\ agora = Data(2025, 6, 15) => registro[1].data_horario = Data(2025, 10, 20)
              /\ agora = Data(2025, 12, 31) => registro[1].data_horario = Data(2026, 10, 20)
              /\ agora = Data(2025, 10, 5) => registro[1].data_horario = Data(2025, 10, 20)

C10_Witness ==
    /\ pc = "filtrado"
    /\ agora = Data(2025, 12, 31)
    /\ tique = 0
    /\ Datas(horarios) = <<"20 de outubro">>
    /\ registro = <<[msg |-> "Ignorado", i |-> 1, data_horario |-> Data(2026, 10, 20)]>>

(***************************************************************************)
(* ConfigValidator.                                                        *)
(***************************************************************************)
\* "not x" for a text or None
Vazio(x) == x = None \/ x = ""

LetrasASCII == (LetrasMaiusculas \cup LetrasMinusculas) \ {"Ç", "Ã", "ç", "ã"}

TodosEm(s, a, b, classe) == \A k \in a..b : Ch(s, k) \in classe

\* re.match(r"^[a-zA-Z0-9._%+-]+@[a-zA-Z0-9.-]+\.[a-zA-Z]{2,}$", email)
CasaPadraoEmail(email) ==
    \E i \in 2..Len(email) :
        /\ Ch(email, i) = "@"
        /\ TodosEm(email, 1, i - 1, LetrasASCII \cup Digitos \cup {".", "_", "%", "+", "-"})
        /\ \E j \in (i + 2)..(Len(email) - 2) :
              /\ Ch(email, j) = "."
              /\ TodosEm(email, i + 1, j - 1, LetrasASCII \cup Digitos \cup {".", "-"})
              /\ TodosEm(email, j + 1, Len(email), LetrasASCII)

\* a variant of validar_email that accepts every text that is not empty
validar_email_SemPadrao(email) == ~Vazio(email)

\* ConfigValidator.validar_email
validar_email(email) == IF Vazio(email) THEN FALSE ELSE CasaPadraoEmail(email)

\* ConfigValidator.validar_data
validar_data(data) == Strptime(data, FMT_Ymd).ok

\* ConfigValidator.validar_configuracoes: the list erros
erros_de_configuracao ==
    (IF Vazio(EMAIL_REMETENTE) THEN <<"EMAIL_SENDER nao configurado">>
     ELSE IF ~validar_email(EMAIL_REMETENTE) THEN <<"EMAIL_SENDER invalido">>
     ELSE <<>>)
    \o (IF Vazio(SENHA_EMAIL) THEN <<"EMAIL_PASSWORD nao configurado">> ELSE <<>>)
    \o (IF ~validar_email(EMAIL_DESTINO) THEN <<"EMAIL_DESTINO invalido">> ELSE <<>>)
    \o (IF ~validar_data(DATA_CONSULTA_ATUAL)
        THEN <<"DATA_CONSULTA_ATUAL em formato invalido">> ELSE <<>>)

validar_configuracoes == erros_de_configuracao = <<>>

(***************************************************************************)
(* Texts of the agenda page, and what buscar makes of them.                *)
(***************************************************************************)
\* f"{n:02d}"
Pad2(n) == IF n < 10 THEN "0" \o Dig(n) ELSE Decimal(n)

\* datetime.now().strftime("%d/%m/%Y")
StrftimeDMY(d) == Pad2(d.dia) \o "/" \o Pad2(d.mes) \o "/" \o Decimal(d.ano)

meses_abrev ==
    << <<"Jan", 1>>, <<"Fev", 2>>, <<"Mar", 3>>, <<"Abr", 4>>, <<"Mai", 5>>,
       <<"Jun", 6>>, <<"Jul", 7>>, <<"Ago", 8>>, <<"Set", 9>>, <<"Out", 10>>,
       <<"Nov", 11>>, <<"Dez", 12>> >>

\* meses_abrev.get(mes_nome, padrao)
MesAbrev(mes_nome, padrao) ==
    IF \E k \in 1..Len(meses_abrev) : meses_abrev[k][1] = mes_nome
    THEN meses_abrev[CHOOSE k \in 1..Len(meses_abrev) : meses_abrev[k][1] = mes_nome][2]
    ELSE padrao

\* the longest run of [A-Za-z] starting at p
RECURSIVE LetrasASCIIDesde(_, _)
LetrasASCIIDesde(s, p) ==
    IF Ch(s, p) \in LetrasASCII THEN Ch(s, p) \o LetrasASCIIDesde(s, p + 1) ELSE ""

UpperCh(c) ==
    IF c \in LetrasMinusculas
    THEN Ch(MAIUSCULAS, CHOOSE i \in 1..Len(MINUSCULAS) : Ch(MINUSCULAS, i) = c)
    ELSE c

\* str.capitalize()
Capitalize(s) ==
    IF Len(s) = 0 THEN "" ELSE UpperCh(Ch(s, 1)) \o Lower(SubSeq(s, 2, Len(s)))

\* re.match(r"([A-Za-z]+),?\s*(\d{4})", mes_ano_text): the letters give back
\* one by one until a comma, blanks and four digits follow
RECURSIVE CasarMesAno(_, _)
CasarMesAno(s, n) ==
    IF n = 0 THEN NaoCasou
    ELSE LET q == IF Ch(s, n + 1) = "," THEN n + 2 ELSE n + 1
             r == FimEspacos(s, q)
         IN  IF TodosEm(s, r, r + 3, Digitos)
             THEN [ok |-> TRUE, mes_str |-> SubSeq(s, 1, n),
                   ano |-> ValorNum(SubSeq(s, r, r + 3))]
             ELSE CasarMesAno(s, n - 1)

\* str.isdigit()
IsDigit(s) == Len(s) > 0 /\ TodosEm(s, 1, Len(s), Digitos)

\* DisponibilidadeScraper._extrair_data_calendario.  selecionado is what
\* page.query_selector finds: "<None>" when no element matches, "<erro>"
\* when the query or inner_text raises, or the text of the element.
_extrair_data_calendario(selecionado, texto_mes_ano, ag) ==
    LET match == CasarMesAno(texto_mes_ano, Len(LetrasASCIIDesde(texto_mes_ano, 1)))
        mes_nome == SubSeq(Capitalize(match.mes_str), 1,
                           IF Len(match.mes_str) < 3 THEN Len(match.mes_str) ELSE 3)
        mes == MesAbrev(mes_nome, ag.mes)
        texto_dia == Strip(selecionado)
        dia == IF selecionado \notin {None, "<erro>"} /\ IsDigit(texto_dia)
               THEN ValorNum(texto_dia) ELSE ag.dia
    IN  IF texto_mes_ano # "" /\ match.ok
        THEN Pad2(dia) \o "/" \o Pad2(mes) \o "/" \o Decimal(match.ano)
        ELSE StrftimeDMY(ag)

\* re.search(r"(\d{2}:\d{2})", texto): the position of the leftmost match,
\* 0 when there is none
RECURSIVE BuscarHora(_, _)
BuscarHora(s, p) ==
    IF p + 4 > Len(s) THEN 0
    ELSE IF /\ Ch(s, p) \in Digitos /\ Ch(s, p + 1) \in Digitos /\ Ch(s, p + 2) = ":"
            /\ Ch(s, p + 3) \in Digitos /\ Ch(s, p + 4) \in Digitos
    THEN p
    ELSE BuscarHora(s, p + 1)

\* str.replace(hora, ""), every occurrence
RECURSIVE Remover(_, _)
Remover(s, hora) ==
    IF Len(s) < Len(hora) THEN s
    ELSE IF SubSeq(s, 1, Len(hora)) = hora
    THEN Remover(SubSeq(s, Len(hora) + 1, Len(s)), hora)
    ELSE Ch(s, 1) \o Remover(SubSeq(s, 2, Len(s)), hora)

\* the Horario buscar makes of the text of one cura-button-outline, for a
\* text where a hora is found at p
HorarioDoBotao(texto, p, data) ==
    LET hora == SubSeq(texto, p, p + 4)
        is_encaixe == Contem("(E)", texto) \/ Contem("E", Strip(Remover(texto, hora)))
    IN  [data |-> data, hora |-> hora,
         texto_original |-> data \o " " \o hora
                            \o (IF is_encaixe THEN " (Encaixe)" ELSE "")]

CaractereDePalavra(c) == c \in LetrasMaiusculas \cup LetrasMinusculas \cup Digitos \cup {"_"}

\* re.findall(r"\b(\d{2}:\d{2})\b", all_text), from position p on
RECURSIVE TodasAsHoras(_, _)
TodasAsHoras(s, p) ==
    IF p + 4 > Len(s) THEN <<>>
    ELSE IF /\ BuscarHora(SubSeq(s, p, p + 4), 1) = 1
            /\ ~CaractereDePalavra(Ch(s, p - 1))
            /\ ~CaractereDePalavra(Ch(s, p + 5))
    THEN <<SubSeq(s, p, p + 4)>> \o TodasAsHoras(s, p + 5)
    ELSE TodasAsHoras(s, p + 1)

\* the Horarios of the fallback on the text of the page.  Each iteration of
\* the loop reads datetime.now() once (line 639): read k is that of the k-th
\* hora, and tq is the first read that sees the day after ag (0 when none
\* does).
HorariosDoTexto(all_text, ag, tq) ==
    LET hora_matches == TodasAsHoras(all_text, 1)
    IN  [k \in 1..Len(hora_matches) |->
            [data |-> StrftimeDMY(Leitura(ag, tq, k)), hora |-> hora_matches[k],
             texto_original |-> "Horário: " \o hora_matches[k]]]

(***************************************************************************)
(* The run: main, MonitorConsulta.executar, DisponibilidadeScraper.buscar  *)
(* and EmailNotifier.enviar.                                               *)
(***************************************************************************)
\* most cura-button-outline elements the agenda page shows
MaxBotoes == 2
\* most KeyboardInterrupts delivered to one run
MaxInterrupcoes == 1

\* values of the configuration
Remetentes == {None, "", "monitor.gmail.com", "monitor@gmail.com"}
Senhas == {None, "", "senha-de-app"}
Destinos == {"oquealan@gmail.com", "oquealan@gmail"}
DatasDeConfiguracao == {"2026-03-11", "11/03/2026", "2026-13-01"}
AgorasDaExecucao == {Data(2026, 3, 10), Data(2026, 3, 12)}

\* what the agenda page shows
Cabecalhos == {"", "Mar, 2026", "Fev, 2026", "Xyz, 2026"}
Selecionados == {None, "<erro>", "9", "31", "2026"}
TextosDeBotao == {"09:00", "14:30 (E)", "Indisponível", "<erro>"}
TextosDoCorpo == {"Nenhum horário", "Horários: 09:00, 14:30."}

\* the exception classes a handler of the class catches, with the classes
\* of smtplib
Subclasse(tipo, classe) ==
    \/ tipo = classe
    \/ Captura(classe, tipo)
    \/ classe = "SMTPException" /\ tipo = "SMTPAuthenticationError"

\* what a step of the run can end with
Resultados ==
    {"ok", "Exception"}
    \cup (IF interrupcoes < MaxInterrupcoes THEN {"KeyboardInterrupt"} ELSE {})

\* One row for each guarded or unguarded operation of the try block of
\* buscar up to the agenda: handler is the except clause around it ("nenhum":
\* none), tratador where that clause goes on, prox where success goes on.
Passo(rotulo, handler, tratador, prox) ==
    [rotulo |-> rotulo, handler |-> handler, tratador |-> tratador, prox |-> prox]

Passos ==
    { Passo("goto", "nenhum", "", "modal"),
      Passo("modal", "BaseException", "dropdown", "dropdown"),
      Passo("dropdown", "BaseException", "dropdown_fb", "espec"),
      Passo("dropdown_fb", "nenhum", "", "espec"),
      Passo("espec", "BaseException", "espec_fb", "espera_429"),
      Passo("espec_fb", "nenhum", "", "espera_429"),
      Passo("espera_429", "nenhum", "", "continuar"),
      Passo("continuar", "BaseException", "continuar_fb", "nav_paciente"),
      Passo("continuar_fb", "BaseException", "foto_442", "nav_paciente"),
      Passo("foto_442", "nenhum", "", "fechar_443"),
      Passo("nav_paciente", "BaseException", "espera_453", "espera_459"),
      Passo("espera_453", "nenhum", "", "espera_459"),
      Passo("espera_459", "nenhum", "", "nascimento"),
      Passo("nascimento", "Exception", "foto_474", "espera_476"),
      Passo("foto_474", "nenhum", "", "espera_476"),
      Passo("espera_476", "nenhum", "", "sexo"),
      Passo("sexo", "BaseException", "sexo_fb", "espera_497"),
      Passo("sexo_fb", "Exception", "espera_497", "espera_497"),
      Passo("espera_497", "nenhum", "", "prossiga2"),
      Passo("prossiga2", "BaseException", "prossiga2_fb", "nav_pagamento"),
      Passo("prossiga2_fb", "BaseException", "foto_509", "nav_pagamento"),
      Passo("foto_509", "nenhum", "", "nav_pagamento"),
      Passo("nav_pagamento", "BaseException", "espera_518", "espera_524"),
      Passo("espera_518", "nenhum", "", "espera_524"),
      Passo("espera_524", "nenhum", "", "pagamento"),
      Passo("pagamento", "Exception", "foto_539", "espera_541"),
      Passo("foto_539", "nenhum", "", "espera_541"),
      Passo("espera_541", "nenhum", "", "prossiga3"),
      Passo("prossiga3", "BaseException", "prossiga3_fb", "espera_561"),
      Passo("prossiga3_fb", "BaseException", "foto_553", "espera_561"),
      Passo("foto_553", "nenhum", "", "espera_561"),
      Passo("espera_561", "nenhum", "", "abas"),
      Passo("carregar_aba", "nenhum", "", "espera_578"),
      Passo("nav_agenda", "BaseException", "espera_578", "espera_578"),
      Passo("espera_578", "nenhum", "", "mes_ano") }

\* the handler of line 440 gives the run up: screenshot, close, return []
Desiste(p) == p.rotulo = "continuar_fb"

\* a variant of buscar without the except clause of line 660
TratadorExterno_Ausente == "nenhum"

\* except Exception as e (line 660), around the whole try block
TratadorExterno == "Exception"

\* a variant of Destino where a handler that catches goes on as after success
Destino_TratadorSegue(res, handler, tratador, prox) ==
    IF res = "ok" \/ Captura(handler, res) THEN prox
    ELSE IF Captura(TratadorExterno, res) THEN "erro_critico"
    ELSE "finally"

\* Where the run goes on when an operation of the try block, guarded by
\* handler, ends with res: prox on success, tratador when its own handler
\* catches, the handler of line 660, or the finally with the exception
\* propagating.
Destino(res, handler, tratador, prox) ==
    IF res = "ok" THEN prox
    ELSE IF Captura(handler, res) THEN tratador
    ELSE IF Captura(TratadorExterno, res) THEN "erro_critico"
    ELSE "finally"

\* the bookkeeping of one operation of the try block that ended with res
Ocorrencia(res, handler, desiste) ==
    /\ interrupcoes' = interrupcoes + (IF res = "KeyboardInterrupt" THEN 1 ELSE 0)
    /\ engolidas' = engolidas
            + (IF res = "KeyboardInterrupt" /\ Captura(handler, res) THEN 1 ELSE 0)
    /\ apos_interrupcao' = (apos_interrupcao \/ interrupcoes > 0)
    /\ falha_absorvida' =
            (falha_absorvida \/ (res = "Exception" /\ Captura(handler, res) /\ ~desiste))
    /\ falha_critica' =
            (falha_critica \/ (res = "Exception" /\ (~Captura(handler, res) \/ desiste)))
    /\ excecao' = IF res # "ok" /\ ~Captura(handler, res) /\ ~Captura(TratadorExterno, res)
                  THEN res ELSE excecao

\* a statement outside the try block of buscar that ended with res
ForaDoTry(res) ==
    /\ interrupcoes' = interrupcoes + (IF res = "KeyboardInterrupt" THEN 1 ELSE 0)
    /\ engolidas' = engolidas
    /\ apos_interrupcao' = (apos_interrupcao \/ interrupcoes > 0)
    /\ excecao' = IF res = "ok" THEN excecao ELSE res
    /\ UNCHANGED falhas

Init ==
    /\ EMAIL_REMETENTE \in Remetentes
    /\ SENHA_EMAIL \in Senhas
    /\ EMAIL_DESTINO \in Destinos
    /\ DATA_CONSULTA_ATUAL \in DatasDeConfiguracao
    /\ agora \in AgorasDaExecucao
    /\ tique = 0
    /\ pc = "construir"
    /\ horarios = <<>>
    /\ horarios_antes = <<>>
    /\ registro = <<>>
    /\ ForaDaExecucao

\* main, line 814: MonitorConsulta() (lines 679-685)
Construir ==
    /\ pc = "construir"
    /\ IF Vazio(EMAIL_REMETENTE) \/ Vazio(SENHA_EMAIL)
       THEN ForaDoTry("Exception") /\ pc' = "main_except"
       ELSE ForaDoTry("ok") /\ pc' = "validar"
    /\ UNCHANGED <<config, filtro, sessao, agenda, correio, saida, horarios, retorno>>

\* executar, lines 781-788
Validar ==
    /\ pc = "validar"
    /\ IF validar_configuracoes
       THEN ForaDoTry("ok") /\ pc' = "buscar"
       ELSE ForaDoTry("SystemExit") /\ pc' = "main_except"
    /\ UNCHANGED <<config, filtro, sessao, agenda, correio, saida, horarios, retorno>>

\* a KeyboardInterrupt raised in a statement of main or executar that no
\* handler but the one of main surrounds
Interromper ==
    /\ pc \in {"construir", "validar", "buscar", "verificar_horarios",
               "filtrar_exec", "decidir"}
    /\ interrupcoes < MaxInterrupcoes
    /\ ForaDoTry("KeyboardInterrupt")
    /\ pc' = "main_except"
    /\ UNCHANGED <<config, filtro, sessao, agenda, correio, saida, horarios, retorno>>

\* executar, line 791, and buscar, lines 376-379
IniciarBuscar ==
    /\ pc = "buscar"
    /\ chamadas_buscar' = chamadas_buscar + 1
    /\ playwright' = "ativo"
    /\ pc' = "lancar"
    /\ ForaDoTry("ok")
    /\ UNCHANGED <<config, filtro, navegador, fechamentos, entrou_no_try, agenda,
                   correio, saida, horarios, retorno>>

\* buscar, line 380
Lancar ==
    /\ pc = "lancar"
    /\ \E res \in Resultados :
          /\ ForaDoTry(res)
          /\ navegador' = IF res = "ok" THEN "aberto" ELSE navegador
          /\ pc' = IF res = "ok" THEN "nova_pagina" ELSE "saida_with"
    /\ UNCHANGED <<config, filtro, playwright, fechamentos, chamadas_buscar,
                   entrou_no_try, agenda, correio, saida, horarios, retorno>>

\* buscar, lines 381-388
NovaPagina ==
    /\ pc = "nova_pagina"
    /\ \E res \in Resultados :
          /\ ForaDoTry(res)
          /\ entrou_no_try' = (res = "ok")
          /\ pc' = IF res = "ok" THEN "goto" ELSE "saida_with"
    /\ UNCHANGED <<config, filtro, playwright, navegador, fechamentos,
                   chamadas_buscar, agenda, correio, saida, horarios, retorno>>

\* buscar, lines 389-561 and 569-581: one operation of the table
PassoDaPagina ==
    /\ \E p \in Passos :
          /\ pc = p.rotulo
          /\ \E res \in Resultados :
                /\ pc' = Destino(res, p.handler, p.tratador, p.prox)
                /\ Ocorrencia(res, p.handler, Desiste(p))
    /\ UNCHANGED <<config, filtro, sessao, agenda, correio, saida, horarios, retorno>>

\* buscar, lines 443-444
Fechar443 ==
    /\ pc = "fechar_443"
    /\ \E res \in Resultados :
          /\ pc' = Destino(res, "nenhum", "", "finally")
          /\ Ocorrencia(res, "nenhum", FALSE)
          /\ navegador' = IF res = "ok" THEN "fechado" ELSE navegador
          /\ retorno' = IF res = "ok" THEN <<>> ELSE retorno
    /\ fechamentos' = fechamentos + 1
    /\ UNCHANGED <<config, filtro, playwright, chamadas_buscar, entrou_no_try,
                   agenda, correio, saida, horarios>>

\* buscar, lines 564-570
VerificarAbas ==
    /\ pc = "abas"
    /\ pc' \in {"carregar_aba", "nav_agenda"}
    /\ Ocorrencia("ok", "nenhum", FALSE)
    /\ UNCHANGED <<config, filtro, sessao, agenda, correio, saida, horarios, retorno>>

\* buscar, lines 586-598
MesAno ==
    /\ pc = "mes_ano"
    /\ \E res \in Resultados :
          /\ mes_ano_text' \in (IF res = "ok" THEN Cabecalhos ELSE {""})
          /\ Ocorrencia(res, "BaseException", FALSE)
    /\ pc' = "botoes"
    /\ UNCHANGED <<config, filtro, sessao, botoes, data_selecionada,
                   horarios_encontrados, correio, saida, horarios, retorno>>

\* buscar, lines 603-605
Botoes ==
    /\ pc = "botoes"
    /\ \E res \in Resultados :
          /\ Ocorrencia(res, "nenhum", FALSE)
          /\ IF res = "ok"
             THEN \E horarios_btns \in Listas(TextosDeBotao, MaxBotoes) :
                     /\ botoes' = horarios_btns
                     /\ pc' = IF horarios_btns = <<>> THEN "texto_corpo"
                              ELSE "data_calendario"
             ELSE /\ botoes' = botoes
                  /\ pc' = Destino(res, "nenhum", "", "")
    /\ UNCHANGED <<config, filtro, sessao, mes_ano_text, data_selecionada,
                   horarios_encontrados, correio, saida, horarios, retorno>>

\* the header text is one _extrair_data_calendario reads a month and year from
CabecalhoCasa(t) == t # "" /\ CasarMesAno(t, Len(LetrasASCIIDesde(t, 1))).ok

\* buscar, line 609.  A KeyboardInterrupt inside _extrair_data_calendario is
\* caught by the except of line 359 or by the one of line 363.
DataCalendario ==
    /\ pc = "data_calendario"
    /\ \/ \E selecionado \in Selecionados :
             /\ data_selecionada' = _extrair_data_calendario(selecionado, mes_ano_text, agora)
             /\ Ocorrencia(IF selecionado = "<erro>" /\ CabecalhoCasa(mes_ano_text)
                           THEN "Exception" ELSE "ok", "BaseException", FALSE)
       \/ /\ "KeyboardInterrupt" \in Resultados
          /\ data_selecionada' \in {_extrair_data_calendario("<erro>", mes_ano_text, agora),
                                    StrftimeDMY(agora)}
          /\ Ocorrencia("KeyboardInterrupt", "BaseException", FALSE)
    /\ pc' = "laco_botoes"
    /\ UNCHANGED <<config, filtro, sessao, mes_ano_text, botoes,
                   horarios_encontrados, correio, saida, horarios, retorno>>

\* buscar, lines 611-628: one iteration of the loop.  The text "<erro>"
\* stands for an element whose inner_text raises.
LacoBotoes ==
    /\ pc = "laco_botoes"
    /\ botoes # <<>>
    /\ \E res \in Resultados \cap
                  ({"KeyboardInterrupt"}
                   \cup (IF Head(botoes) = "<erro>" THEN {"Exception"} ELSE {"ok"})) :
          /\ Ocorrencia(res, "BaseException", FALSE)
          /\ \E p \in {BuscarHora(Strip(Head(botoes)), 1)} :
                horarios_encontrados' =
                    IF res = "ok" /\ p > 0
                    THEN Append(horarios_encontrados,
                                HorarioDoBotao(Strip(Head(botoes)), p, data_selecionada))
                    ELSE horarios_encontrados
    /\ botoes' = Tail(botoes)
    /\ pc' = IF Tail(botoes) = <<>> THEN "resumo" ELSE "laco_botoes"
    /\ UNCHANGED <<config, filtro, sessao, mes_ano_text, data_selecionada,
                   correio, saida, horarios, retorno>>

\* buscar, lines 633-644
TextoCorpo ==
    /\ pc = "texto_corpo"
    /\ \E res \in Resultados :
          /\ Ocorrencia(res, "nenhum", FALSE)
          /\ IF res = "ok"
             THEN \E all_text \in TextosDoCorpo :
                     /\ \E tq \in 0..Len(TodasAsHoras(all_text, 1)) :
                           horarios_encontrados' = HorariosDoTexto(all_text, agora, tq)
                     /\ pc' = "resumo"
             ELSE /\ horarios_encontrados' = horarios_encontrados
                  /\ pc' = Destino(res, "nenhum", "", "")
    /\ UNCHANGED <<config, filtro, sessao, mes_ano_text, botoes, data_selecionada,
                   correio, saida, horarios, retorno>>

\* buscar, lines 646-655
Resumo ==
    /\ pc = "resumo"
    /\ IF horarios_encontrados # <<>>
       THEN Ocorrencia("ok", "nenhum", FALSE)
       ELSE \E res \in Resultados : Ocorrencia(res, "BaseException", FALSE)
    /\ pc' = "fechar_657"
    /\ UNCHANGED <<config, filtro, sessao, agenda, correio, saida, horarios, retorno>>

\* buscar, lines 657-658
Fechar657 ==
    /\ pc = "fechar_657"
    /\ \E res \in Resultados :
          /\ pc' = Destino(res, "nenhum", "", "finally")
          /\ Ocorrencia(res, "nenhum", FALSE)
          /\ navegador' = IF res = "ok" THEN "fechado" ELSE navegador
          /\ retorno' = IF res = "ok" THEN horarios_encontrados ELSE retorno
    /\ fechamentos' = fechamentos + 1
    /\ UNCHANGED <<config, filtro, playwright, chamadas_buscar, entrou_no_try,
                   agenda, correio, saida, horarios>>

\* buscar, lines 660-666.  A KeyboardInterrupt in the screenshot is caught
\* by the except of line 664; one raised while line 661 logs propagates.
ErroCritico ==
    /\ pc = "erro_critico"
    /\ \/ \E res \in Resultados :
             /\ Ocorrencia(res, "BaseException", FALSE)
             /\ retorno' = <<>>
       \/ /\ "KeyboardInterrupt" \in Resultados
          /\ ForaDoTry("KeyboardInterrupt")
          /\ retorno' = retorno
    /\ pc' = "finally"
    /\ UNCHANGED <<config, filtro, sessao, agenda, correio, saida, horarios>>

\* a variant of buscar without the finally clause
FechaNoFinally_Nunca == FALSE

\* finally: browser.close() (lines 667-671)
FechaNoFinally == TRUE

\* buscar, lines 667-671: the finally clause, run with the return value or
\* the propagating exception pending; its except catches everything
Finally ==
    /\ pc = "finally"
    /\ IF FechaNoFinally
       THEN \E res \in Resultados :
               /\ fechamentos' = fechamentos + 1
               /\ navegador' = IF res = "ok" /\ navegador = "aberto" THEN "fechado"
                               ELSE navegador
               /\ interrupcoes' = interrupcoes + (IF res = "KeyboardInterrupt" THEN 1 ELSE 0)
               /\ engolidas' = engolidas + (IF res = "KeyboardInterrupt" THEN 1 ELSE 0)
               /\ falha_absorvida' = (falha_absorvida \/ res = "Exception")
       ELSE UNCHANGED <<fechamentos, navegador, interrupcoes, engolidas, falha_absorvida>>
    /\ pc' = "saida_with"
    /\ UNCHANGED <<config, filtro, playwright, chamadas_buscar, entrou_no_try, agenda,
                   correio, saida, apos_interrupcao, falha_critica, horarios,
                   excecao, retorno>>

\* buscar, line 379: leaving the with block stops the playwright session,
\* and with it a browser that is still open; then the caller has the
\* returned list, or the exception
SaidaWith ==
    /\ pc = "saida_with"
    /\ playwright' = "encerrado"
    /\ navegador' = IF navegador = "aberto" THEN "encerrado" ELSE navegador
    /\ IF excecao # "nenhuma"
       THEN pc' = "main_except" /\ horarios' = horarios
       ELSE pc' = "verificar_horarios" /\ horarios' = retorno
    /\ UNCHANGED <<config, filtro, fechamentos, chamadas_buscar, entrou_no_try, agenda,
                   correio, saida, sinais, falhas, excecao, retorno>>

\* executar, lines 793-795
VerificarHorarios ==
    /\ pc = "verificar_horarios"
    /\ pc' = IF horarios = <<>> THEN "terminar" ELSE "filtrar_exec"
    /\ ForaDoTry("ok")
    /\ UNCHANGED <<config, filtro, sessao, agenda, correio, saida, horarios, retorno>>

\* executar, line 798
FiltrarExec ==
    /\ pc = "filtrar_exec"
    /\ \E tq \in Tiques(agora, Len(horarios)) :
          \E r \in {filtrar_horarios_anteriores(horarios, DATA_CONSULTA_ATUAL, agora, tq)} :
              /\ tique' = tq
              /\ horarios_antes' = r.antes
              /\ registro' = r.registro
              /\ ForaDoTry(IF r.levantou THEN "Exception" ELSE "ok")
              /\ pc' = IF r.levantou THEN "main_except" ELSE "decidir"
    /\ UNCHANGED <<config, sessao, agenda, correio, saida, horarios, retorno>>

\* a variant of executar that notifies whatever the filter returned
DeveNotificar_Sempre(filtrados) == TRUE

\* executar, line 801: if horarios_antes
DeveNotificar(filtrados) == filtrados # <<>>

\* executar, lines 801-808
Decidir ==
    /\ pc = "decidir"
    /\ pc' = IF DeveNotificar(horarios_antes) THEN "enviar" ELSE "terminar"
    /\ ForaDoTry("ok")
    /\ UNCHANGED <<config, filtro, sessao, agenda, correio, saida, horarios, retorno>>

\* a variant of enviar with the except clauses of smtplib only
TratadoresDeEnviar_SoSMTP == {"SMTPAuthenticationError", "SMTPException"}

\* enviar, lines 200-208: the except clauses
TratadoresDeEnviar == {"SMTPAuthenticationError", "SMTPException", "Exception"}

\* executar, line 806, and enviar, lines 182-208.  An exception that is not
\* of smtplib, and a KeyboardInterrupt, may come before or after the
\* connection of line 192 is made.
Enviar ==
    /\ pc = "enviar"
    /\ envios' = Append(envios, horarios_antes)
    /\ \E res \in Resultados \cup {"SMTPAuthenticationError", "SMTPException"} :
          \E capturada \in {res # "ok" /\ \E h \in TratadoresDeEnviar : Subclasse(res, h)} :
              /\ conexoes_smtp' \in (IF res \in {"Exception", "KeyboardInterrupt"}
                                     THEN {conexoes_smtp, conexoes_smtp + 1}
                                     ELSE {conexoes_smtp + 1})
              /\ retorno_enviar' = IF res = "ok" THEN "True"
                                   ELSE IF capturada THEN "False" ELSE retorno_enviar
              /\ falha_envio' = IF res \in {"ok", "KeyboardInterrupt"} THEN falha_envio
                                ELSE res
              /\ ForaDoTry(IF capturada THEN "ok" ELSE res)
              /\ pc' = IF res = "ok" \/ capturada THEN "terminar" ELSE "main_except"
    /\ UNCHANGED <<config, filtro, sessao, agenda, saida, horarios, retorno>>

\* main, line 815 returns: the process ends with code 0
Terminar ==
    /\ pc = "terminar"
    /\ codigo_saida' = 0
    /\ desfecho' = "normal"
    /\ pc' = "fim"
    /\ UNCHANGED <<config, filtro, sessao, agenda, correio, sinais, falhas,
                   horarios, excecao, retorno>>

\* main, lines 816-821; SystemExit passes both except clauses with the code
\* of sys.exit(1)
MainExcept ==
    /\ pc = "main_except"
    /\ codigo_saida' = IF excecao = "KeyboardInterrupt" THEN 0 ELSE 1
    /\ desfecho' = IF excecao \in {"KeyboardInterrupt", "SystemExit"} THEN excecao
                   ELSE "Exception"
    /\ pc' = "fim"
    /\ UNCHANGED <<config, filtro, sessao, agenda, correio, sinais, falhas,
                   horarios, excecao, retorno>>

Next ==
    \/ Construir
    \/ Validar
    \/ Interromper
    \/ IniciarBuscar
    \/ Lancar
    \/ NovaPagina
    \/ PassoDaPagina
    \/ Fechar443
    \/ VerificarAbas
    \/ MesAno
    \/ Botoes
    \/ DataCalendario
    \/ LacoBotoes
    \/ TextoCorpo
    \/ Resumo
    \/ Fechar657
    \/ ErroCritico
    \/ Finally
    \/ SaidaWith
    \/ VerificarHorarios
    \/ FiltrarExec
    \/ Decidir
    \/ Enviar
    \/ Terminar
    \/ MainExcept

Spec == Init /\ [][Next]_vars

(***************************************************************************)
(* Properties of the run (checked under Spec).                             *)
(***************************************************************************)
\* buscar was called and control is back in executar or main
DeVoltaDeBuscar ==
    /\ chamadas_buscar > 0
    /\ pc \in {"verificar_horarios", "filtrar_exec", "decidir", "enviar",
               "terminar", "main_except", "fim"}

\* C2: executar calls the notifier at most once in a run, with the whole
\* list the filter returned, and that list is not empty; a run that ends
\* normally has called it exactly when the filter returned slots; a run in
\* which buscar returned no slot has not called it.
C2_UmaNotificacaoComTudo ==
    /\ Len(envios) <= 1
    /\ envios # <<>> =>
          /\ envios[1] = horarios_antes
          /\ horarios_antes # <<>>
          /\ horarios_antes =
                filtrar_horarios_anteriores(horarios, DATA_CONSULTA_ATUAL, agora, tique).antes
    /\ pc = "fim" /\ desfecho = "normal" => (envios # <<>> <=> horarios_antes # <<>>)
    /\ horarios = <<>> => envios = <<>> /\ horarios_antes = <<>>

\* a run that ended normally after one call of enviar with two slots
C2_Witness ==
    /\ pc = "fim"
    /\ desfecho = "normal"
    /\ Len(envios) = 1
    /\ Len(envios[1]) = 2
    /\ envios[1] = horarios

\* the configuration has an item the specification calls invalid: sender
\* missing or malformed, password missing, destination malformed,
\* reference date not in YYYY-MM-DD form
ConfiguracaoInvalida ==
    \/ EMAIL_REMETENTE \in {None, "", "monitor.gmail.com"}
    \/ SENHA_EMAIL \in {None, ""}
    \/ EMAIL_DESTINO = "oquealan@gmail"
    \/ DATA_CONSULTA_ATUAL \in {"11/03/2026", "2026-13-01"}

\* C3: with an invalid configuration item the run never calls buscar, never
\* starts a browser and never calls the mail sender or connects to the mail
\* server; it only constructs, validates and exits, and, when no
\* KeyboardInterrupt is delivered, it exits with code 1: by the ValueError
\* of the constructor when sender or password is missing, by sys.exit(1)
\* of executar otherwise.
C3_ConfiguracaoInvalidaAborta ==
    ConfiguracaoInvalida =>
        /\ chamadas_buscar = 0
        /\ playwright = "parado"
        /\ navegador = "nao_aberto"
        /\ envios = <<>>
        /\ conexoes_smtp = 0
        /\ pc \in {"construir", "validar", "main_except", "fim"}
        /\ pc = "fim" /\ interrupcoes = 0 =>
              /\ codigo_saida = 1
              /\ desfecho = IF EMAIL_REMETENTE \in {None, ""} \/ SENHA_EMAIL \in {None, ""}
                            THEN "Exception" ELSE "SystemExit"

\* a run with sender and password set and a malformed destination, ended by
\* sys.exit(1)
C3_Witness ==
    /\ pc = "fim"
    /\ EMAIL_REMETENTE = "monitor@gmail.com"
    /\ SENHA_EMAIL = "senha-de-app"
    /\ EMAIL_DESTINO = "oquealan@gmail"
    /\ DATA_CONSULTA_ATUAL = "2026-03-11"
    /\ codigo_saida = 1
    /\ desfecho = "SystemExit"

\* C4: when buscar gives control back to its caller, by return or by an
\* exception or interruption, the browser it launched is not open and the
\* playwright session is ended; and on every path that leaves the try block
\* browser.close() has been called before the with block is left.
C4_NavegadorFechadoAoVoltar ==
    /\ DeVoltaDeBuscar =>
          /\ navegador # "aberto"
          /\ playwright = "encerrado"
          /\ entrou_no_try => fechamentos >= 1
    /\ pc = "saida_with" /\ entrou_no_try => fechamentos >= 1

\* a KeyboardInterrupt propagated out of the try block of buscar, and the
\* browser was closed by browser.close()
C4_Witness ==
    /\ pc = "main_except"
    /\ excecao = "KeyboardInterrupt"
    /\ entrou_no_try
    /\ navegador = "fechado"
    /\ fechamentos >= 1

\* C6 as stated: after any failure of a page operation inside buscar,
\* buscar returns an empty list, no exception reaches main, no
\* notification is sent and the run ends with exit code 0.
C6_QualquerFalhaDevolveVazio ==
    falha_absorvida \/ falha_critica =>
        /\ excecao # "Exception"
        /\ DeVoltaDeBuscar => horarios = <<>> /\ envios = <<>>
        /\ pc = "fim" => codigo_saida = 0

\* C6 amended: no failure of a page operation inside the try block of
\* buscar reaches the caller as an exception; a failure that the handler of
\* its own step does not let the run go on from (both selectors of
\* 'CONTINUE O AGENDAMENTO' fail, or the failure reaches the handler of line
\* 660) makes buscar return an empty list, and the run ends with exit code
\* 0 without calling the notifier.
C6_FalhaNaoAbsorvidaDevolveVazio ==
    /\ falha_absorvida \/ falha_critica =>
          /\ excecao # "Exception"
          /\ desfecho # "Exception"
    /\ falha_critica =>
          /\ retorno = <<>>
          /\ horarios = <<>>
          /\ envios = <<>>
          /\ pc \notin {"filtrar_exec", "decidir", "enviar"}
          /\ pc = "fim" => codigo_saida = 0

\* a run in which a page operation failed for good and that ended normally
C6_Witness ==
    /\ pc = "fim"
    /\ falha_critica
    /\ interrupcoes = 0
    /\ chamadas_buscar = 1
    /\ desfecho = "normal"
    /\ codigo_saida = 0

\* C7: when the sending fails inside enviar, with any exception class,
\* enviar returns False, the exception does not leave it, the run ends
\* normally with exit code 0, and enviar was called once and connected to
\* the mail server at most once.
C7_FalhaDeEnvioAbsorvida ==
    falha_envio # "nenhuma" =>
        /\ retorno_enviar = "False"
        /\ excecao = "nenhuma"
        /\ Len(envios) = 1
        /\ conexoes_smtp <= 1
        /\ pc \in {"terminar", "fim"}
        /\ pc = "fim" => codigo_saida = 0 /\ desfecho = "normal"

\* a run in which the login was refused, ended with exit code 0
C7_Witness ==
    /\ pc = "fim"
    /\ falha_envio = "SMTPAuthenticationError"
    /\ retorno_enviar = "False"
    /\ conexoes_smtp = 1
    /\ codigo_saida = 0

\* C8 as stated: no KeyboardInterrupt is caught inside buscar, no step of
\* the run starts after one was delivered, a run that got one ends by the
\* KeyboardInterrupt clause of main with exit code 0, and a run ended by
\* another uncaught exception exits with code 1.
C8_InterrupcaoEncerraComZero ==
    /\ engolidas = 0
    /\ ~apos_interrupcao
    /\ pc = "fim" /\ interrupcoes > 0 =>
          codigo_saida = 0 /\ desfecho = "KeyboardInterrupt"
    /\ pc = "fim" /\ desfecho \in {"Exception", "SystemExit"} => codigo_saida = 1

OrigensDePalavras ==
    LET X == DiasTextuais \X (NomesDeMes \cup {"marco"} \cup OutrasPalavras)
                 \X FormasTextuais
        T == [x \in X |-> TextoDiaMes(x[1], x[2], x[3])]
    IN  [t \in {T[x] : x \in X} |-> CHOOSE x \in X : T[x] = t]

\* C12 as stated: the word after the day number is resolved to a month only
\* when it is one of the 24 entries of meses_pt or "marco", and then to the
\* month that entry names; any other word leaves the Horario without a date
\* ("Nao foi possivel converter").
C12_SoPalavrasDaTabela ==
    (/\ pc = "filtrado" /\ DataLimiteObj.ok /\ Len(horarios) = 1
     /\ horarios[1].data \in DOMAIN OrigensDePalavras) =>
        \E x \in {OrigensDePalavras[horarios[1].data]} :
            IF x[2] \in NomesDeMes \cup {"marco"}
            THEN /\ registro[1].msg # "Nao foi possivel converter"
                 /\ registro[1].msg \in {"ENCONTRADO", "Ignorado"} =>
                        registro[1].data_horario.mes = NumeroDoMes(x[2])
            ELSE registro[1].msg = "Nao foi possivel converter"

\* C13: filtering is idempotent.  With the clock standing on one date, the
\* filter applied to its own result, against the same reference date, gives
\* that result again, element for element and in the same order.
C13_Idempotente ==
    (pc = "filtrado" /\ tique = 0) =>
        \E r \in {filtrar_horarios_anteriores(horarios_antes, DATA_CONSULTA_ATUAL,
                                              agora, 0)} :
            /\ ~r.levantou
            /\ r.antes = horarios_antes

C13_Witness ==
    /\ pc = "filtrado"
    /\ tique = 0
    /\ Len(horarios) = 3
    /\ Len(horarios_antes) = 2
    /\ filtrar_horarios_anteriores(horarios_antes, DATA_CONSULTA_ATUAL,
                                   agora, 0).antes = horarios_antes

\* C14 as stated: within one call the year and the month used for the year
\* inference come from one instant, also when midnight passes while the call
\* runs: what the call logs for each Horario is what a call with the clock
\* standing on the day it began, or standing on the day after, logs for it.
C14_UmSoInstante ==
    (pc = "filtrado" /\ DataLimiteObj.ok) =>
        \A i \in 1..Len(horarios) :
            \E d \in {agora, Amanha(agora)} :
                \E r \in {filtrar_horarios_anteriores(<<horarios[i]>>,
                                                      DATA_CONSULTA_ATUAL, d, 0)} :
                    registro[i] = [r.registro[1] EXCEPT !.i = i]

\* C15 as stated: the text before the first comma is discarded and the
\* remainder is normalized as the remainder alone would be: whenever the
\* text after "Seg, " normalizes to a date by itself, numeric or textual,
\* the whole text is logged with that same date.
C15_RestoComoSozinho ==
    (/\ pc = "filtrado" /\ DataLimiteObj.ok /\ Len(horarios) = 1
     /\ Len(horarios[1].data) > 5
     /\ SubSeq(horarios[1].data, 1, 5) = "Seg, ") =>
        \E resto \in {SubSeq(horarios[1].data, 6, Len(horarios[1].data))} :
            \E s \in {filtrar_horarios_anteriores(
                          <<[horarios[1] EXCEPT !.data = resto]>>,
                          DATA_CONSULTA_ATUAL, agora, tique)} :
                s.registro[1].msg \in {"ENCONTRADO", "Ignorado"} =>
                    registro = s.registro

\* the day, the month word and the year a text with a written year was
\* written from
OrigensComAno ==
    LET X == {10, 20} \X {"março", "outubro"} \X AnosEscritos
        T == [x \in X |-> TextoDiaMesAno(x[1], x[2], x[3])]
    IN  [t \in {T[x] : x \in X} |-> CHOOSE x \in X : T[x] = t]

\* C16 as stated: a textual date that states its year is normalized to
\* that year, whatever the clock shows: "10 de março de 2027" is
\* 10/03/2027.
C16_AnoEscritoRespeitado ==
    (/\ pc = "filtrado" /\ DataLimiteObj.ok /\ Len(horarios) = 1
     /\ horarios[1].data \in DOMAIN OrigensComAno) =>
        \E x \in {OrigensComAno[horarios[1].data]} :
            /\ registro[1].msg \in {"ENCONTRADO", "Ignorado"}
            /\ registro[1].data_horario = Data(x[3], NumeroDoMes(x[2]), x[1])

(***************************************************************************)
(* Further properties of one run (checked under Spec).                     *)
(***************************************************************************)
\* C17 as stated: whatever the month header, the text of the selected day
\* and the current date, _extrair_data_calendario returns a text of the form
\* dd/mm/yyyy that names a date of the calendar, one the first numeric
\* format of the filter ("%d/%m/%Y") accepts.
C17_DataSempreValida ==
    (data_selecionada # "") =>
        /\ Len(data_selecionada) = 10
        /\ Strptime(data_selecionada, formatos[1]).ok

\* C19 as stated: all the Horarios one call of buscar returns carry the same
\* data text, so what the filter keeps, and what is passed to enviar, is
\* either nothing or the whole list buscar returned, never a part of it.
C19_TudoOuNada ==
    /\ \A i, j \in 1..Len(retorno) : retorno[i].data = retorno[j].data
    /\ horarios_antes \in {<<>>, horarios}
    /\ \A k \in 1..Len(envios) : envios[k] = horarios

\* the stage of buscar (ETAPA 1 to 4) a position of the run belongs to, 0
\* for a position before the first stage or after the try block
Etapa(rotulo) ==
    CASE rotulo \in {"modal", "dropdown", "dropdown_fb", "espec", "espec_fb",
                     "espera_429", "continuar", "continuar_fb", "foto_442",
                     "fechar_443", "nav_paciente", "espera_453"} -> 1
      [] rotulo \in {"espera_459", "nascimento", "foto_474", "espera_476", "sexo",
                     "sexo_fb", "espera_497", "prossiga2", "prossiga2_fb",
                     "foto_509", "nav_pagamento", "espera_518"} -> 2
      [] rotulo \in {"espera_524", "pagamento", "foto_539", "espera_541",
                     "prossiga3", "prossiga3_fb", "foto_553"} -> 3
      [] rotulo \in {"espera_561", "abas", "carregar_aba", "nav_agenda",
                     "espera_578", "mes_ano", "botoes", "data_calendario",
                     "laco_botoes", "texto_corpo", "resumo", "fechar_657"} -> 4
      [] OTHER -> 0

\* C18: buscar goes through its four stages in order, none skipped and none
\* entered again; Horarios are collected, and a list other than the empty
\* one is returned, only in stage 4; the run goes on from a
\* 'CONTINUE O AGENDAMENTO' click to the patient page only when the click
\* succeeded, and when the second selector fails too it takes the screenshot
\* and returns the empty list without leaving stage 1; a form fill, sex
\* selection or 'PROSSIGA' click of stage 2 or 3 that fails with an
\* Exception leaves the run in its stage or the next one.
C18_EtapasEmOrdem ==
    [][ /\ (Etapa(pc) > 0 /\ Etapa(pc') > 0) =>
                Etapa(pc') \in {Etapa(pc), Etapa(pc) + 1}
        /\ (Etapa(pc) = 0 /\ Etapa(pc') > 0) => (pc = "goto" /\ Etapa(pc') = 1)
        /\ horarios_encontrados' # horarios_encontrados => Etapa(pc) = 4
        /\ retorno' # <<>> => (retorno' = retorno \/ Etapa(pc) = 4)
        /\ (pc \in {"continuar", "continuar_fb"} /\ pc' = "nav_paciente") =>
                UNCHANGED <<falha_absorvida, falha_critica, engolidas, interrupcoes>>
        /\ (pc = "continuar_fb" /\ (falha_critica' \/ engolidas' > engolidas)) =>
                pc' = "foto_442"
        /\ pc \in {"foto_442", "fechar_443"} =>
                /\ pc' \in {"fechar_443", "erro_critico", "finally"}
                /\ horarios_encontrados' = <<>>
                /\ retorno' = <<>>
        /\ (/\ pc \in {"nascimento", "sexo", "sexo_fb", "prossiga2", "prossiga2_fb",
                       "pagamento", "prossiga3", "prossiga3_fb"}
            /\ interrupcoes' = interrupcoes) =>
                /\ Etapa(pc') \in {Etapa(pc), Etapa(pc) + 1}
                /\ retorno' = retorno
      ]_vars

\* buscar has returned from line 444: both selectors of
\* 'CONTINUE O AGENDAMENTO' failed, the browser was closed there and the
\* empty list returned, the agenda never looked at
C18_Witness ==
    /\ pc = "finally"
    /\ falha_critica
    /\ navegador = "fechado"
    /\ fechamentos = 1
    /\ retorno = <<>>
    /\ horarios_encontrados = <<>>
    /\ mes_ano_text = ""

====
